---- MODULE Spec2Model ----
(***************************************************************************)
(* Model of main.py of automated-intrinsic-value-analyzer: the DCF         *)
(* valuation of one ticker (compute_intrinsic_value), the batch run over a *)
(* ticker list (analyze_company_group), the P/E cross-check               *)
(* (fetch_pe_ratio, analyze_with_multiples) and the main block that zips   *)
(* the two reports into the combined table.                                *)
(*                                                                         *)
(* Numbers.  A Python float is a fixed-point number: the integer v stands  *)
(* for v / Unit (Unit = 1000, so 26470 is 26.470).  Arithmetic rounds to   *)
(* the nearest representable value, ties to even, as IEEE arithmetic does. *)
(* The margin of safety is kept as an exact fraction, because its sign is  *)
(* exact in IEEE arithmetic (for p < i the quotient p / i rounds to a      *)
(* value strictly below 1, and for p > i strictly above 1), which a        *)
(* fixed-point quotient of three decimals would not reproduce.             *)
(* A value is a record [k, v]: k = "num" (v is the number), "nan", "inf"   *)
(* (v is the sign), "none" (Python's None), "missing" (the key or row is   *)
(* absent), or the name of a raised exception.                             *)
(***************************************************************************)
EXTENDS Integers, Sequences, FiniteSets, TLC

VARIABLES provider,     \* ticker -> what the market-data provider returns for it
          ticker_list,  \* the list handed to both analyses
          pc,           \* where the main block is
          idx,          \* position of the running loop in its list (1-based)
          dcf,          \* summary of analyze_company_group (mag7_dcf)
          pe,           \* summary of analyze_with_multiples (mag7_pe)
          combined,     \* mag7_combined
          calls         \* per iteration of analyze_company_group: its locals and printed line

vars == <<provider, ticker_list, pc, idx, dcf, pe, combined, calls>>

----------------------------------------------------------------------------
(* Values *)

Unit == 10 * 100

Num(n)  == [k |-> "num", v |-> n]
NaN     == [k |-> "nan", v |-> 0]
Inf(s)  == [k |-> "inf", v |-> s]
None    == [k |-> "none", v |-> 0]
Missing == [k |-> "missing", v |-> 0]
Exc(e)  == [k |-> e, v |-> 0]

Exceptions == {"ProviderError", "KeyError", "TypeError"}
IsExc(x) == x.k \in Exceptions
IsNum(x) == x.k = "num"

Sign(n) == IF n > 0 THEN 1 ELSE IF n < 0 THEN -1 ELSE 0
Abs(n)  == IF n < 0 THEN -n ELSE n

\* n / d (d > 0) rounded to the nearest integer, ties to even
RoundDiv(n, d) ==
    LET q == n \div d
        r == n % d
    IN  IF 2 * r < d THEN q
        ELSE IF 2 * r > d THEN q + 1
        ELSE IF q % 2 = 0 THEN q ELSE q + 1

\* a + b and a - b on Python values: an exception propagates (left operand
\* first), None is a TypeError, NaN is contagious
PyAdd(a, b) ==
    IF IsExc(a) THEN a
    ELSE IF IsExc(b) THEN b
    ELSE IF a.k = "none" \/ b.k = "none" THEN Exc("TypeError")
    ELSE IF a.k = "nan" \/ b.k = "nan" THEN NaN
    ELSE IF a.k = "inf" THEN a
    ELSE IF b.k = "inf" THEN b
    ELSE Num(a.v + b.v)

PyNeg(b) == IF b.k \in {"num", "inf"} THEN [b EXCEPT !.v = -b.v] ELSE b

PySub(a, b) == PyAdd(a, PyNeg(b))

\* a * b and a / b on numbers (fixed point)
Mul(a, b) == RoundDiv(a * b, Unit)
Div(a, b) == RoundDiv(a * Unit * Sign(b), Abs(b))

\* a / b where a is a numpy float64 (line 47): a zero divisor gives inf or
\* nan with a warning, None is a TypeError
NpTrueDiv(a, b) ==
    IF IsExc(a) THEN a
    ELSE IF IsExc(b) THEN b
    ELSE IF a.k = "none" \/ b.k = "none" THEN Exc("TypeError")
    ELSE IF a.k = "nan" \/ b.k = "nan" THEN NaN
    ELSE IF a.k = "inf" THEN a
    ELSE IF b.k = "inf" THEN Num(0)
    ELSE IF b.v = 0 THEN (IF a.v = 0 THEN NaN ELSE Inf(Sign(a.v)))
    ELSE Num(Div(a.v, b.v))

\* a > b on floats: false when either is NaN
PyGt(a, b) ==
    IF a.k = "nan" \/ b.k = "nan" THEN FALSE
    ELSE IF a.k = "inf" /\ b.k = "inf" THEN a.v > b.v
    ELSE IF a.k = "inf" THEN a.v > 0
    ELSE IF b.k = "inf" THEN b.v < 0
    ELSE a.v > b.v

\* a == 0: None == 0 is False
PyEqZero(a) == a.k = "num" /\ a.v = 0

\* truth value of pe: None and 0 are false, every other float (NaN too) is true
PyTruthy(a) == ~(a.k = "none" \/ (a.k = "num" /\ a.v = 0))

\* info.get(key, default)
Get(field, default) == IF field.k = "missing" THEN default ELSE field

\* f"{x:.2f}": x rounded to hundredths ("nan" and "inf" print as such)
Fmt2(x) == IF x.k = "num" THEN Num(RoundDiv(x.v * 100, Unit)) ELSE x

----------------------------------------------------------------------------
(* compute_intrinsic_value *)

perpetual_growth  == 25
discount_rate     == 70
short_term_growth == 50
Horizon           == 5

RECURSIVE Pow(_, _)
Pow(b, n) == IF n = 0 THEN Unit ELSE Mul(Pow(b, n - 1), b)

projected_fcf(fcf) ==
    [i \in 1..Horizon |-> Mul(fcf, Pow(Unit + short_term_growth, i))]

terminal_value(fcf) ==
    Div(Mul(projected_fcf(fcf)[Horizon], Unit + perpetual_growth),
        discount_rate - perpetual_growth)

discounted_fcf(fcf) ==
    [i \in 1..Horizon |-> Div(projected_fcf(fcf)[i], Pow(Unit + discount_rate, i))]

discounted_terminal(fcf) == Div(terminal_value(fcf), Pow(Unit + discount_rate, Horizon))

RECURSIVE SumTo(_, _)
SumTo(f, n) == IF n = 0 THEN 0 ELSE SumTo(f, n - 1) + f[n]

enterprise_value(fcf) == SumTo(discounted_fcf(fcf), Horizon) + discounted_terminal(fcf)

\* cashflow.loc[row].iloc[0]: a KeyError when the statement has no such row
Loc(row) == IF row.k = "missing" THEN Exc("KeyError") ELSE row

\* lines 18-23: the Free Cash Flow line, else operating cash flow + capex
base_fcf_minus(cashflow) ==
    IF cashflow.FCF.k # "missing" THEN cashflow.FCF
    ELSE PySub(Loc(cashflow.Op), Loc(cashflow.Capex))

base_fcf(cashflow) ==
    IF cashflow.FCF.k # "missing" THEN cashflow.FCF
    ELSE PyAdd(Loc(cashflow.Op), Loc(cashflow.Capex))

\* line 24: pd.isna(fcf) or fcf <= 0
invalid_fcf_zero_passes(fcf) == fcf.k \in {"nan", "none"} \/ fcf.v < 0

invalid_fcf(fcf) == fcf.k \in {"nan", "none"} \/ fcf.v <= 0

\* line 48: info.get('currentPrice', info.get('regularMarketPrice'))
current_price(info) == Get(info.currentPrice, Get(info.regularMarketPrice, None))

\* What one call leaves behind: the returned pair, the exception in flight
\* ("" when none), the line it printed, the steps it executed and its fcf.
Ret(intrinsic, price, raised, msg, steps, fcf) ==
    [intrinsic |-> intrinsic, price |-> price, raised |-> raised,
     msg |-> msg, steps |-> steps, fcf |-> fcf]

ProjectionSteps == {"project", "terminal", "discount"}

\* lines 16-49, the body of the try block
compute_body(d) ==
    IF IsExc(d.cashflow)
    THEN Ret(None, None, d.cashflow.k, "", {"cashflow"}, None)
    ELSE
    LET fcf == base_fcf(d.cashflow) IN
    IF IsExc(fcf)
    THEN Ret(None, None, fcf.k, "", {"cashflow", "fcf"}, None)
    ELSE IF invalid_fcf(fcf)
    THEN Ret(None, None, "", "NoValidFCF", {"cashflow", "fcf", "fcf_check"}, fcf)
    ELSE
    LET ev    == Num(enterprise_value(fcf.v))
        done1 == {"cashflow", "fcf", "fcf_check"} \cup ProjectionSteps
    IN
    IF IsExc(d.info)
    THEN Ret(None, None, d.info.k, "", done1 \cup {"info"}, fcf)
    ELSE
    LET total_debt   == Get(d.info.totalDebt, Num(0))
        cash_equiv   == Get(d.info.totalCash, Num(0))
        equity_value == PyAdd(PySub(ev, total_debt), cash_equiv)
        shares       == Get(d.info.sharesOutstanding, Num(0))
        done2        == done1 \cup {"info", "equity"}
    IN
    IF IsExc(equity_value)
    THEN Ret(None, None, equity_value.k, "", done2, fcf)
    ELSE IF PyEqZero(shares)
    THEN Ret(None, None, "", "SharesZero", done2 \cup {"shares_check"}, fcf)
    ELSE
    LET intrinsic_per_share == NpTrueDiv(equity_value, shares)
        done3               == done2 \cup {"shares_check", "divide"}
    IN
    IF IsExc(intrinsic_per_share)
    THEN Ret(None, None, intrinsic_per_share.k, "", done3, fcf)
    ELSE Ret(intrinsic_per_share, current_price(d.info), "", "",
             done3 \cup {"price"}, fcf)

\* the body with no try/except around it: an exception leaves the function
compute_intrinsic_value_no_except(d) == compute_body(d)

\* lines 15-52: except Exception prints the error and returns (None, None)
compute_intrinsic_value(d) ==
    LET r == compute_body(d) IN
    IF r.raised # ""
    THEN [r EXCEPT !.raised = "", !.msg = "ErrorOccurred"]
    ELSE r

----------------------------------------------------------------------------
(* analyze_company_group *)

Frac(n, d) == [num |-> n, den |-> d]

\* line 103, with the sign of the margin flipped (price premium)
margin_of_premium(intrinsic, price) ==
    IF PyGt(intrinsic, Num(0))
    THEN IF intrinsic.k = "inf" THEN Frac(-100, 1)
         ELSE Frac(100 * (price.v - intrinsic.v), intrinsic.v)
    ELSE Frac(-100, 1)

\* line 103: (1 - (price / intrinsic)) * 100 if intrinsic > 0 else -100
margin_of(intrinsic, price) ==
    IF PyGt(intrinsic, Num(0))
    THEN IF intrinsic.k = "inf" THEN Frac(100, 1)
         ELSE Frac(100 * (intrinsic.v - price.v), intrinsic.v)
    ELSE Frac(-100, 1)

\* line 104 with >= for >
verdict_of_ge(intrinsic, price) ==
    IF PyGt(intrinsic, price) \/ intrinsic = price THEN "Undervalued" ELSE "Overvalued"

\* line 104
verdict_of(intrinsic, price) ==
    IF PyGt(intrinsic, price) THEN "Undervalued" ELSE "Overvalued"

\* f"{margin:.2f}%": hundredths of a percent
FmtMargin(m) == RoundDiv(100 * m.num, m.den)

\* lines 105-111
dcf_row(ticker, intrinsic, price) ==
    [Ticker         |-> ticker,
     IntrinsicValue |-> Fmt2(intrinsic),
     CurrentPrice   |-> Fmt2(price),
     MarginOfSafety |-> FmtMargin(margin_of(intrinsic, price)),
     Verdict        |-> verdict_of(intrinsic, price)]

\* line 102
has_result(r) == r.intrinsic.k # "none" /\ r.price.k # "none"

\* lines 102-111 where a ticker already in the summary is not added again
next_summary_dedupe(summary, ticker, r) ==
    IF has_result(r) /\ \A n \in 1..Len(summary) : summary[n].Ticker # ticker
    THEN Append(summary, dcf_row(ticker, r.intrinsic, r.price))
    ELSE summary

\* lines 102-111: a row is appended only when both values came back
next_summary(summary, ticker, r) ==
    IF has_result(r)
    THEN Append(summary, dcf_row(ticker, r.intrinsic, r.price))
    ELSE summary

\* the locals of one iteration, and the line compute_intrinsic_value printed
CallRecord(ticker, r) ==
    [ticker    |-> ticker,
     fcf       |-> r.fcf,
     steps     |-> r.steps,
     msg       |-> r.msg,
     intrinsic |-> r.intrinsic,
     price     |-> r.price,
     reached   |-> has_result(r),
     margin    |-> IF has_result(r) THEN margin_of(r.intrinsic, r.price) ELSE Frac(0, 1),
     verdict   |-> IF has_result(r) THEN verdict_of(r.intrinsic, r.price) ELSE ""]

\* lines 99-111: one iteration of the loop of analyze_company_group; an
\* exception that leaves compute_intrinsic_value ends the program
AnalyzeCompanyGroupIter ==
    /\ pc = "analyze_company_group"
    /\ idx <= Len(ticker_list)
    /\ LET ticker == ticker_list[idx]
           r      == compute_intrinsic_value(provider[ticker])
       IN  IF r.raised # ""
           THEN /\ pc' = "crashed"
                /\ UNCHANGED <<idx, dcf, calls>>
           ELSE /\ dcf' = next_summary(dcf, ticker, r)
                /\ calls' = Append(calls, CallRecord(ticker, r))
                /\ idx' = idx + 1
                /\ pc' = pc
    /\ UNCHANGED <<provider, ticker_list, pe, combined>>

\* line 112 and line 151: return summary; the P/E analysis starts
AnalyzeCompanyGroupReturn ==
    /\ pc = "analyze_company_group"
    /\ idx > Len(ticker_list)
    /\ pc' = "analyze_with_multiples"
    /\ idx' = 1
    /\ UNCHANGED <<provider, ticker_list, dcf, pe, combined, calls>>

----------------------------------------------------------------------------
(* fetch_pe_ratio, analyze_with_multiples *)

PEThreshold == 25

NotAvailable == [k |-> "N/A", v |-> 0]

\* lines 120-126: the trailingPE of the snapshot, None when absent or on error
fetch_pe_ratio(d) ==
    IF IsExc(d.info) THEN None ELSE Get(d.info.trailingPE, None)

\* line 136
pe_verdict(ratio) ==
    IF PyTruthy(ratio) /\ PyGt(ratio, Num(PEThreshold * Unit)) THEN "High P/E"
    ELSE IF PyTruthy(ratio) THEN "Low P/E"
    ELSE "N/A"

\* lines 137-141
pe_row(ticker, ratio) ==
    [Ticker    |-> ticker,
     PERatio   |-> IF PyTruthy(ratio) THEN Fmt2(ratio) ELSE NotAvailable,
     PEVerdict |-> pe_verdict(ratio)]

\* lines 133-141: one iteration of the loop of analyze_with_multiples
AnalyzeWithMultiplesIter ==
    /\ pc = "analyze_with_multiples"
    /\ idx <= Len(ticker_list)
    /\ LET ticker == ticker_list[idx]
       IN  pe' = Append(pe, pe_row(ticker, fetch_pe_ratio(provider[ticker])))
    /\ idx' = idx + 1
    /\ UNCHANGED <<provider, ticker_list, pc, dcf, combined, calls>>

\* line 142 and line 152: return summary; the zip loop starts
AnalyzeWithMultiplesReturn ==
    /\ pc = "analyze_with_multiples"
    /\ idx > Len(ticker_list)
    /\ pc' = "zip"
    /\ idx' = 1
    /\ UNCHANGED <<provider, ticker_list, dcf, pe, combined, calls>>

----------------------------------------------------------------------------
(* main block *)

Min(a, b) == IF a < b THEN a ELSE b

\* lines 155-157: the DCF row with the P/E columns of the row zipped with it
combine(dcf_entry, pe_entry) ==
    [Ticker         |-> dcf_entry.Ticker,
     IntrinsicValue |-> dcf_entry.IntrinsicValue,
     CurrentPrice   |-> dcf_entry.CurrentPrice,
     MarginOfSafety |-> dcf_entry.MarginOfSafety,
     Verdict        |-> dcf_entry.Verdict,
     PERatio        |-> pe_entry.PERatio,
     PEVerdict      |-> pe_entry.PEVerdict]

\* lines 154-158: zip stops at the shorter of the two lists
CombineIter ==
    /\ pc = "zip"
    /\ idx <= Min(Len(dcf), Len(pe))
    /\ combined' = Append(combined, combine(dcf[idx], pe[idx]))
    /\ idx' = idx + 1
    /\ UNCHANGED <<provider, ticker_list, pc, dcf, pe, calls>>

\* lines 170-178: the tables are shown and the program ends
CombineDone ==
    /\ pc = "zip"
    /\ idx > Min(Len(dcf), Len(pe))
    /\ pc' = "done"
    /\ UNCHANGED <<provider, ticker_list, idx, dcf, pe, combined, calls>>

----------------------------------------------------------------------------
(* What the provider can return, and the initial states *)

\* MAGNIFICENT_7, cut to two symbols
Tickers == {"AAPL", "MSFT"}

MaxTickers == 3

\* every list over Tickers, repeated symbols and every order included:
\* list(MAGNIFICENT_7) iterates a set, whose order Python does not fix
TickerLists == UNION {[1..n -> Tickers] : n \in 0..MaxTickers}

CF(fcf, op, capex) ==
    [k |-> "ok", v |-> 0, FCF |-> fcf, Op |-> op, Capex |-> capex]

Info(debt, cash, shares, cur, reg, trailing) ==
    [k |-> "ok", v |-> 0, totalDebt |-> debt, totalCash |-> cash,
     sharesOutstanding |-> shares, currentPrice |-> cur,
     regularMarketPrice |-> reg, trailingPE |-> trailing]

Snapshot(cashflow, info) == [cashflow |-> cashflow, info |-> info]

\* enterprise_value(1000) = 25441: with no debt or cash and one share this
\* is the intrinsic value per share, so these prices sit on, just below and
\* just above it
PriceVals == {Num(-1000), Num(0), Num(25440), Num(25441), Num(25442), Num(60000)}

PricePairs ==
    {<<Missing, Missing>>, <<Missing, Num(25442)>>, <<None, Num(25442)>>}
        \cup {<<p, Missing>> : p \in PriceVals}

ValuationCashflows ==
    {Exc("ProviderError")}
        \cup {CF(f, Missing, Missing) : f \in {NaN, Num(-500), Num(0), Num(1000)}}
        \cup {CF(Missing, o, c) : o \in {Missing, NaN, Num(-300), Num(1500)},
                                  c \in {Missing, Num(-500), Num(0), Num(200)}}

ValuationInfos ==
    {Exc("ProviderError")}
        \cup {Info(debt, cash, shares, pp[1], pp[2], Missing) :
                 debt \in {Missing, None, Num(25441), Num(30000)},
                 cash \in {Missing, Num(500)},
                 shares \in {Missing, None, Num(0), Num(1000), Num(4000)},
                 pp \in PricePairs}

ValuationSnapshots ==
    {Snapshot(c, i) : c \in ValuationCashflows, i \in ValuationInfos}

\* one snapshot per outcome of the valuation (undervalued, overvalued on the
\* fallback, negative FCF, NaN FCF, zero shares, no price, provider down, no
\* operating-cash-flow row, info fetch failing, shares None), each with its
\* own trailing P/E
BatchSnapshots ==
    { Snapshot(CF(Num(1000), Missing, Missing),
               Info(Missing, Missing, Num(1000), Num(20000), Missing, Num(30000))),
      Snapshot(CF(Missing, Num(1500), Num(-500)),
               Info(Num(2000), Num(500), Num(4000), Missing, Num(60000), Num(25000))),
      Snapshot(CF(Num(-500), Missing, Missing),
               Info(Missing, Missing, Num(1000), Num(20000), Missing, Num(-5000))),
      Snapshot(CF(NaN, Missing, Missing),
               Info(Missing, Missing, Num(1000), Num(20000), Missing, NaN)),
      Snapshot(CF(Num(1000), Missing, Missing),
               Info(Missing, Missing, Num(0), Num(20000), Missing, Num(0))),
      Snapshot(CF(Num(1000), Missing, Missing),
               Info(Missing, Missing, Num(1000), Missing, Missing, Missing)),
      Snapshot(Exc("ProviderError"), Exc("ProviderError")),
      Snapshot(CF(Missing, Missing, Num(-500)),
               Info(Missing, Missing, Num(1000), Num(20000), Missing, Num(26000))),
      Snapshot(CF(Num(1000), Missing, Missing), Exc("ProviderError")),
      Snapshot(CF(Num(1000), Missing, Missing),
               Info(Missing, Missing, None, Num(20000), Missing, Num(10000))) }

Start ==
    /\ pc = "analyze_company_group"
    /\ idx = 1
    /\ dcf = <<>>
    /\ pe = <<>>
    /\ combined = <<>>
    /\ calls = <<>>

\* the main block on any ticker list
Init ==
    /\ provider \in [Tickers -> BatchSnapshots]
    /\ ticker_list \in TickerLists
    /\ Start

\* the main block on one ticker, over every provider snapshot
InitValuation ==
    /\ \E d \in ValuationSnapshots : provider = [t \in Tickers |-> d]
    /\ ticker_list = <<"AAPL">>
    /\ Start

Next ==
    \/ AnalyzeCompanyGroupIter
    \/ AnalyzeCompanyGroupReturn
    \/ AnalyzeWithMultiplesIter
    \/ AnalyzeWithMultiplesReturn
    \/ CombineIter
    \/ CombineDone

Spec == Init /\ [][Next]_vars

SpecValuation == InitValuation /\ [][Next]_vars

----------------------------------------------------------------------------
(* Properties *)

\* analyze_company_group has returned
Returned == pc \in {"analyze_with_multiples", "zip", "done"}

\* the row of the summary that iteration n appended (when it appended one)
RowIndex(n) == Cardinality({m \in 1..n : calls[m].reached})

TickersOf(rows) == [n \in 1..Len(rows) |-> rows[n].Ticker]

\* the valuation of snapshot d gives both an intrinsic value and a price
Succeeds(d) ==
    LET r == compute_intrinsic_value(d) IN r.raised = "" /\ has_result(r)

RECURSIVE SuccessfulTickers(_)
SuccessfulTickers(list) ==
    IF list = <<>> THEN <<>>
    ELSE LET front == SuccessfulTickers(SubSeq(list, 1, Len(list) - 1))
             last  == list[Len(list)]
         IN  IF Succeeds(provider[last]) THEN Append(front, last) ELSE front

\* lexicographic order of the symbols
Rank(t) == IF t = "AAPL" THEN 1 ELSE 2

\* C1: once analyze_company_group has returned, its summary has exactly one
\* row per input ticker, in input positions, and the row of a ticker whose
\* valuation failed carries a verdict naming the failure, not a computed one.
C1_OneRowPerTicker ==
    Returned =>
        /\ Len(dcf) = Len(ticker_list)
        /\ \A n \in 1..Len(ticker_list) :
              /\ dcf[n].Ticker = ticker_list[n]
              /\ ~Succeeds(provider[ticker_list[n]])
                    => dcf[n].Verdict \notin {"Undervalued", "Overvalued"}

\* C2: a failure of one ticker's valuation never aborts the batch: the
\* program never crashes; each iteration of the loop of analyze_company_group
\* moves on to the next ticker, whatever the outcome, so the return is
\* reached after one iteration per ticker; on return every ticker
\* of the list has been visited in order; and no step changes the rows
\* collected so far (a failing ticker adds none).
C2_FailureNeverAbortsBatch ==
    [][/\ pc # "crashed" /\ pc' # "crashed"
       /\ pc = "analyze_company_group" =>
             /\ idx <= Len(ticker_list) + 1
             /\ Len(calls) = idx - 1
             /\ pc' = pc => (idx' = idx + 1 /\ calls'[idx].ticker = ticker_list[idx])
       /\ Returned' =>
             /\ Len(calls') = Len(ticker_list)
             /\ \A n \in 1..Len(ticker_list) : calls'[n].ticker = ticker_list[n]
       /\ Len(dcf') >= Len(dcf)
       /\ SubSeq(dcf', 1, Len(dcf)) = dcf
       /\ (/\ pc = "analyze_company_group"
           /\ idx <= Len(ticker_list)
           /\ ~Succeeds(provider[ticker_list[idx]])) => dcf' = dcf]_vars

\* C2 witness: the batch returned after a provider exception on a ticker that
\* was not the last, with rows before and after it.
C2_Witness ==
    /\ Returned
    /\ Len(calls) = 3
    /\ calls[1].reached
    /\ calls[2].msg = "ErrorOccurred"
    /\ calls[3].reached
    /\ Len(dcf) = 2

\* C3: for every pair (intrinsic, price) that reaches the verdict step, the
\* verdict (also the one in the row) is Undervalued exactly when intrinsic is
\* strictly greater than price and Overvalued otherwise; a tie is Overvalued.
C3_VerdictStrictlyGreater ==
    \A n \in 1..Len(calls) :
        LET c == calls[n] IN
        (c.reached /\ IsNum(c.intrinsic) /\ IsNum(c.price)) =>
            /\ c.verdict \in {"Undervalued", "Overvalued"}
            /\ c.verdict = "Undervalued" <=> c.intrinsic.v > c.price.v
            /\ c.intrinsic.v = c.price.v => c.verdict = "Overvalued"
            /\ dcf[RowIndex(n)].Verdict = c.verdict

\* C3 witness: a tie reached the verdict step and the row says Overvalued.
C3_Witness ==
    \E n \in 1..Len(calls) :
        /\ calls[n].reached
        /\ calls[n].intrinsic = calls[n].price
        /\ dcf[RowIndex(n)].Verdict = "Overvalued"

AfterFcfCheck ==
    ProjectionSteps \cup {"info", "equity", "shares_check", "divide", "price"}

\* C4: when the base free cash flow is zero, negative or NaN, none of the
\* projection, terminal-value, equity-bridge and verdict steps runs, no
\* intrinsic value comes back, no row is added, and the outcome is the
\* invalid-FCF one.
C4_InvalidFcfStopsValuation ==
    \A n \in 1..Len(calls) :
        LET c == calls[n] IN
        (c.fcf.k = "nan" \/ (c.fcf.k = "num" /\ c.fcf.v <= 0)) =>
            /\ c.steps \cap AfterFcfCheck = {}
            /\ c.intrinsic = None
            /\ ~c.reached
            /\ c.verdict = ""
            /\ c.msg = "NoValidFCF"
            /\ Len(dcf) = RowIndex(n - 1)

\* C4 witness: a base free cash flow of exactly zero ended with the
\* invalid-FCF outcome.
C4_Witness ==
    \E n \in 1..Len(calls) :
        /\ calls[n].fcf = Num(0)
        /\ calls[n].msg = "NoValidFCF"
        /\ Returned
        /\ dcf = <<>>

\* C5: whenever the equity bridge is reached with sharesOutstanding zero,
\* missing or None, the division is not evaluated, the ticker ends with the
\* no-share-data outcome of the explicit check, and no value comes back.
C5_NoShareDataByExplicitCheck ==
    \A n \in 1..Len(calls) :
        LET c == calls[n]
            d == provider[c.ticker]
        IN  ("equity" \in c.steps /\ d.info.totalDebt.k # "none"
                /\ (d.info.sharesOutstanding.k \in {"missing", "none"}
                       \/ d.info.sharesOutstanding = Num(0))) =>
                /\ "divide" \notin c.steps
                /\ c.msg = "SharesZero"
                /\ ~c.reached

\* the trailing P/E the provider has for ticker t (None: absent)
TrailingPE(t) ==
    IF IsExc(provider[t].info) \/ provider[t].info.trailingPE.k = "missing"
    THEN None
    ELSE provider[t].info.trailingPE

\* C6: the P/E verdict is High P/E exactly when the ratio is present and
\* above 25, Low P/E exactly when it is present, positive and at most 25, and
\* N/A exactly when it is absent, zero, negative or NaN.
C6_PEClassification ==
    \A n \in 1..Len(pe) :
        LET ratio == TrailingPE(pe[n].Ticker) IN
        /\ pe[n].PEVerdict = "High P/E"
              <=> (ratio.k = "num" /\ ratio.v > PEThreshold * Unit)
        /\ pe[n].PEVerdict = "Low P/E"
              <=> (ratio.k = "num" /\ ratio.v > 0 /\ ratio.v <= PEThreshold * Unit)
        /\ pe[n].PEVerdict = "N/A"
              <=> (ratio.k \in {"none", "nan"} \/ (ratio.k = "num" /\ ratio.v <= 0))

\* C7 as stated: the report holds each distinct ticker at most once, in
\* lexicographically sorted order.
C7_SortedAndUnique ==
    pc = "done" =>
        \A m, n \in 1..Len(combined) :
            m < n => Rank(combined[m].Ticker) < Rank(combined[n].Ticker)

\* C7 as amended: the report holds one row per successful occurrence of a
\* ticker in the input list, in the order of the input list (the list is
\* neither deduplicated nor sorted).
C7_InputOrderKept ==
    /\ Returned => TickersOf(dcf) = SuccessfulTickers(ticker_list)
    /\ pc = "done" => TickersOf(combined) = SuccessfulTickers(ticker_list)

\* C7 witness: a finished report with a repeated symbol, out of sorted order.
C7_Witness ==
    /\ pc = "done"
    /\ ticker_list = <<"MSFT", "AAPL", "MSFT">>
    /\ TickersOf(combined) = <<"MSFT", "AAPL", "MSFT">>

\* the statement has no Free Cash Flow line and has both fallback lines
FallbackCase(d) ==
    /\ ~IsExc(d.cashflow)
    /\ d.cashflow.FCF.k = "missing"
    /\ IsNum(d.cashflow.Op)
    /\ IsNum(d.cashflow.Capex)

\* C8 as stated: without a Free Cash Flow line the base free cash flow is
\* operating cash flow minus capital expenditure.
C8_FallbackOpMinusCapex ==
    \A n \in 1..Len(calls) :
        LET d == provider[calls[n].ticker] IN
        FallbackCase(d) =>
            calls[n].fcf = Num(d.cashflow.Op.v - d.cashflow.Capex.v)

\* C8 as amended: without a Free Cash Flow line the base free cash flow is
\* operating cash flow plus the capital-expenditure line (which the provider
\* reports as a negative number), for values of either sign.
C8_FallbackOpPlusCapex ==
    \A n \in 1..Len(calls) :
        LET d == provider[calls[n].ticker] IN
        FallbackCase(d) =>
            calls[n].fcf = Num(d.cashflow.Op.v + d.cashflow.Capex.v)

\* C8 witness: a valuation went through on the fallback with a non-zero
\* capital expenditure.
C8_Witness ==
    \E n \in 1..Len(calls) :
        LET d == provider[calls[n].ticker] IN
        /\ FallbackCase(d)
        /\ d.cashflow.Capex = Num(-500)
        /\ calls[n].fcf = Num(1000)
        /\ calls[n].reached

\* C9: every row of the combined report carries the P/E ratio and P/E
\* verdict computed for the row's own ticker.
C9_PEColumnsOfSameTicker ==
    \A k \in 1..Len(combined) :
        LET own == pe_row(combined[k].Ticker, TrailingPE(combined[k].Ticker)) IN
        /\ combined[k].PERatio = own.PERatio
        /\ combined[k].PEVerdict = own.PEVerdict

\* the margin of safety of a row agrees with its verdict
RowAgrees(row, c) ==
    /\ row.Verdict = "Undervalued" <=> row.MarginOfSafety > 0
    /\ (IsNum(c.intrinsic) /\ c.intrinsic.v <= 0)
          => (row.MarginOfSafety = -10000 /\ row.Verdict = "Overvalued")

\* C10 as stated: in every row with a non-negative price the verdict is
\* Undervalued exactly when the row's margin of safety is strictly positive,
\* and a zero or negative intrinsic value gives -100 and Overvalued.
C10_RowMarginAgrees ==
    \A n \in 1..Len(calls) :
        LET c == calls[n] IN
        (c.reached /\ IsNum(c.price) /\ c.price.v >= 0) =>
            RowAgrees(dcf[RowIndex(n)], c)

\* C10 as amended: the verdict is Undervalued exactly when the margin as
\* computed, before the row rounds it to two decimals, is strictly positive;
\* the rounded margin of the row is never negative on an Undervalued row nor
\* positive on an Overvalued one (it can be 0.00 on either); and a zero or
\* negative intrinsic value gives -100 and Overvalued.
C10_ComputedMarginAgrees ==
    \A n \in 1..Len(calls) :
        LET c   == calls[n]
            row == dcf[RowIndex(n)]
        IN  (c.reached /\ IsNum(c.price) /\ c.price.v >= 0) =>
                /\ row.Verdict = "Undervalued"
                      <=> Sign(c.margin.num) * Sign(c.margin.den) > 0
                /\ row.MarginOfSafety = FmtMargin(c.margin)
                /\ row.Verdict = "Undervalued" => row.MarginOfSafety >= 0
                /\ row.Verdict = "Overvalued" => row.MarginOfSafety <= 0
                /\ (IsNum(c.intrinsic) /\ c.intrinsic.v <= 0)
                      => (row.MarginOfSafety = -10000 /\ row.Verdict = "Overvalued")

\* C10 witness: an Undervalued row with a non-negative price whose positive
\* margin is shown as 0.00.
C10_Witness ==
    \E n \in 1..Len(calls) :
        LET c == calls[n] IN
        /\ c.reached
        /\ c.price.v >= 0
        /\ c.margin.num > 0
        /\ dcf[RowIndex(n)].Verdict = "Undervalued"
        /\ dcf[RowIndex(n)].MarginOfSafety = 0

====
